---- MODULE Spec2Model ----
(***************************************************************************)
(* A model of the ARGO ingestion script argo_Indian_202303/data.py: the    *)
(* index fetch, the spatial-temporal filter, the file retriever, the       *)
(* profile flattener, the combination into argo_processed.csv and the      *)
(* MySQL loader.  The script runs top to bottom; pc is its position.       *)
(***************************************************************************)
EXTENDS Integers, Sequences, FiniteSets, TLC

VARIABLES
    pc,               \* position of the script
    run,              \* number of the current execution of the script
    remote_index,     \* rows of ar_index_global_prof.txt.gz on the server
    df_index,         \* data.py:64/69, the parsed catalog
    filtered,         \* data.py:71, the selected rows
    disk,             \* argo_data_downloads: base name -> absent/partial/complete
    dl_i,             \* position of the loop at data.py:82
    downloaded_files, \* data.py:81
    connects,         \* FTP connections opened for profile files in this run
    df,               \* data.py:134, the frame process_nc_file returned last
    f_i,              \* position of the loop at data.py:132
    all_rows,         \* data.py:131
    csv,              \* argo_processed.csv: <<>> when absent, else <<file>>
    table,            \* committed rows of argo_profiles
    txn,              \* rows loaded and not yet committed
    conn,             \* the name conn: unbound/connected/lost/closed
    cursor,           \* the name cursor: unbound/open/closed
    err,              \* the except clause at data.py:173 ran
    start,            \* disk, csv and table as the current run found them
    first_disk,       \* disk before the first run
    succeeded,        \* destinations some download_file_ftp call completed
    prev              \* the previous run of the retriever

vars == <<pc, run, remote_index, df_index, filtered, disk, dl_i,
          downloaded_files, connects, df, f_i, all_rows, csv, table, txn,
          conn, cursor, err, start, first_disk, succeeded, prev>>

-----------------------------------------------------------------------------
(* Bounds of the model *)

MaxRows == 2
MaxPairs == 3
MaxSel == 2
MaxRuns == 2

-----------------------------------------------------------------------------
(* PARAMETERS, data.py:14-17 *)

lat_min == -5
lat_max == 5
lon_min == 60
lon_max == 80
\* "2023-03-01" and "2023-03-31": <<year, month, day>>
start_date == <<2023, 3, 1>>
end_date == <<2023, 3, 31>>

-----------------------------------------------------------------------------
(* Dates.  A timestamp is a number of hours since 2023-01-01 00:00, below  *)
(* zero before it.  A catalog date is the number the index column holds,   *)
(* YYYYMMDDHHMMSS, without its minute and second digits: YYYYMMDDHH.       *)

Leap(y) == y % 4 = 0 /\ (y % 100 # 0 \/ y % 400 = 0)

\* the leap years before year y
LeapsBefore(y) == ((y - 1) \div 4) - ((y - 1) \div 100) + ((y - 1) \div 400)

\* days from 2023-01-01 to the first day of year y
DaysBeforeYear(y) == 365 * (y - 2023) + LeapsBefore(y) - LeapsBefore(2023)

\* days of year y before the first day of month m
DaysBefore(y, m) ==
    (CASE m = 1 -> 0
       [] m = 2 -> 31
       [] m = 3 -> 59
       [] m = 4 -> 90
       [] m = 5 -> 120
       [] m = 6 -> 151
       [] m = 7 -> 181
       [] m = 8 -> 212
       [] m = 9 -> 243
       [] m = 10 -> 273
       [] m = 11 -> 304
       [] OTHER -> 334)
    + (IF Leap(y) /\ m > 2 THEN 1 ELSE 0)

Hours(y, m, d, h) == (DaysBeforeYear(y) + DaysBefore(y, m) + d - 1) * 24 + h

\* pd.to_datetime(df_index['date'], format='%Y%m%d%H%M%S')
ToDatetime(n) ==
    Hours(n \div 1000000, (n \div 10000) % 100, (n \div 100) % 100, n % 100)

\* pandas parses the string a datetime column is compared with: a date
\* without a time of day is the midnight that starts the day
ParseDateString(s) == Hours(s[1], s[2], s[3], 0)

-----------------------------------------------------------------------------
(* STEP D, the filter at data.py:71-75 *)

SelectedLoose(r) ==
    /\ r.latitude >= lat_min /\ r.latitude <= lat_max
    /\ r.longitude >= lon_min /\ r.longitude <= lon_max
    /\ r.date > ParseDateString(start_date)
    /\ r.date <= ParseDateString(end_date)

Selected(r) ==
    /\ r.latitude >= lat_min /\ r.latitude <= lat_max
    /\ r.longitude >= lon_min /\ r.longitude <= lon_max
    /\ r.date >= ParseDateString(start_date)
    /\ r.date <= ParseDateString(end_date)

FilterRows(rows) == SelectSeq(rows, Selected)

-----------------------------------------------------------------------------
(* STEP F, process_nc_file, data.py:101-129.  A dataset is what             *)
(* xr.open_dataset finds in a file: whether it opens, the variables it      *)
(* holds, its dimensions, the number of entries of PLATFORM_NUMBER (ids),   *)
(* whether JULD is still a number of days (juld_numeric) and the            *)
(* quality-control flags.  The measured values are fixed functions of the   *)
(* indices, distinct for each variable.                                     *)

vars_to_keep == <<"TEMP", "PSAL">>

\* the variables lines 108-112 read whatever the flags are
HeaderVars == {"PLATFORM_NUMBER", "JULD", "LATITUDE", "LONGITUDE", "PRES"}

AllVars == HeaderVars \cup {"TEMP", "PSAL", "TEMP_QC", "PSAL_QC"}

Flags == {"1", "2", "4"}

\* var.lower(), data.py:124
Lower(var) == IF var = "TEMP" THEN "temp" ELSE "psal"

\* var + "_QC", data.py:122
QcName(var) == IF var = "TEMP" THEN "TEMP_QC" ELSE "PSAL_QC"

\* pd.to_datetime(ds["JULD"].values, origin="1950-01-01", unit="D"), in hours
JuldToDatetime(days) == days * 24

Juld(ds, i) == 26722 + i
Latitude(ds, i) == i
Longitude(ds, i) == 70 + i
Pres(ds, i, j) == 10 * j + 5
Value(ds, var, i, j) ==
    IF var = "TEMP" THEN 100 + 10 * i + j + ds.platform
    ELSE 300 + 10 * i + j + ds.platform

\* qc_var in ds and ds[qc_var].values[i, j] in [b'1', b'2'], data.py:123
Accepted(ds, var, i, j) ==
    /\ QcName(var) \in ds.present
    /\ ds.qc[var][<<i, j>>] \in {"1", "2"}

\* the dict of lines 117-124, as its items in insertion order
Record(ds, i, j) ==
    LET base == << <<"float_id", ds.platform>>,
                   <<"date", JuldToDatetime(Juld(ds, i))>>,
                   <<"latitude", Latitude(ds, i)>>,
                   <<"longitude", Longitude(ds, i)>>,
                   <<"depth", Pres(ds, i, j)>> >>
        kept == SelectSeq(vars_to_keep, LAMBDA v : Accepted(ds, v, i, j))
    IN  base \o [k \in 1..Len(kept) |->
                    <<Lower(kept[k]), Value(ds, kept[k], i, j)>>]

\* the pairs in the order of the loops at lines 115-116
PairAt(ds, k) == <<(k - 1) \div ds.n_levels, (k - 1) % ds.n_levels>>

NPairs(ds) == ds.n_prof * ds.n_levels

\* len(record) > 5, data.py:126
KeepRecord(rec) == Len(rec) > 5

\* rows, data.py:114-127
RecordsOf(ds) ==
    SelectSeq([k \in 1..NPairs(ds) |-> Record(ds, PairAt(ds, k)[1], PairAt(ds, k)[2])],
              KeepRecord)

\* an uncaught exception leaves process_nc_file: a variable of lines 108-112
\* is missing (KeyError); PLATFORM_NUMBER holds more or fewer than one entry,
\* as it does with one entry a profile, and .item() at line 108 raises
\* ValueError; JULD was decoded to datetimes by xr.open_dataset and
\* pd.to_datetime with an origin, line 109, raises ValueError; or line 124
\* reads the data array of a variable whose flag is accepted and finds none
Raises(ds) ==
    /\ ds.openable
    /\ \/ ~(HeaderVars \subseteq ds.present)
       \/ ds.ids # 1
       \/ ~ds.juld_numeric
       \/ \E k \in 1..NPairs(ds) : \E n \in 1..Len(vars_to_keep) :
            /\ Accepted(ds, vars_to_keep[n], PairAt(ds, k)[1], PairAt(ds, k)[2])
            /\ vars_to_keep[n] \notin ds.present

-----------------------------------------------------------------------------
(* pandas.  A frame is its columns in order and its rows, each row a        *)
(* sequence of cells aligned with the columns; a cell is <<v>> or, for      *)
(* NaN, <<>>.                                                               *)

RECURSIVE AppendNew(_, _)
AppendNew(cols, keys) ==
    IF keys = <<>> THEN cols
    ELSE LET k == Head(keys)
         IN  AppendNew(IF \E p \in 1..Len(cols) : cols[p] = k THEN cols
                       ELSE Append(cols, k),
                       Tail(keys))

\* the union of the key lists in order of first appearance
RECURSIVE OrderedUnion(_)
OrderedUnion(lists) ==
    IF lists = <<>> THEN <<>>
    ELSE AppendNew(OrderedUnion(SubSeq(lists, 1, Len(lists) - 1)),
                   lists[Len(lists)])

Keys(rec) == [k \in 1..Len(rec) |-> rec[k][1]]

CellOf(rec, col) ==
    IF \E k \in 1..Len(rec) : rec[k][1] = col
    THEN <<rec[CHOOSE k \in 1..Len(rec) : rec[k][1] = col][2]>>
    ELSE <<>>

EmptyFrame == [columns |-> <<>>, rows |-> <<>>]

\* pd.DataFrame(rows), data.py:129
DataFrame(recs) ==
    LET cols == OrderedUnion([k \in 1..Len(recs) |-> Keys(recs[k])])
    IN  [columns |-> cols,
         rows |-> [k \in 1..Len(recs) |->
                     [p \in 1..Len(cols) |-> CellOf(recs[k], cols[p])]]]

\* process_nc_file: the frame returned, when no exception leaves the function
ProcessNcFile(ds) ==
    IF ~ds.openable THEN EmptyFrame ELSE DataFrame(RecordsOf(ds))

IsEmptyNever(frame) == FALSE

\* df.empty, data.py:135
IsEmpty(frame) == Len(frame.rows) = 0 \/ Len(frame.columns) = 0

ColumnCell(frame, k, col) ==
    IF \E p \in 1..Len(frame.columns) : frame.columns[p] = col
    THEN frame.rows[k][CHOOSE p \in 1..Len(frame.columns) : frame.columns[p] = col]
    ELSE <<>>

RECURSIVE FlattenRows(_, _)
FlattenRows(frames, cols) ==
    IF frames = <<>> THEN <<>>
    ELSE LET fr == Head(frames)
         IN  [k \in 1..Len(fr.rows) |->
                 [p \in 1..Len(cols) |-> ColumnCell(fr, k, cols[p])]]
             \o FlattenRows(Tail(frames), cols)

\* pd.concat(all_rows, ignore_index=True), data.py:142
Concat(frames) ==
    LET cols == OrderedUnion([k \in 1..Len(frames) |-> frames[k].columns])
    IN  [columns |-> cols, rows |-> FlattenRows(frames, cols)]

RenameColumn(c) ==
    IF c = "temp" THEN "temperature" ELSE IF c = "psal" THEN "salinity" ELSE c

\* combined.rename(columns={"temp": "temperature", "psal": "salinity"}), data.py:143
Rename(frame) ==
    [columns |-> [p \in 1..Len(frame.columns) |-> RenameColumn(frame.columns[p])],
     rows |-> frame.rows]

\* combined.to_csv(csv_path, index=False), data.py:146: a header line and one
\* line a row, a NaN written as an empty field
ToCsv(frame) == [header |-> frame.columns, lines |-> frame.rows]

Combined(frames) == Rename(Concat(frames))

-----------------------------------------------------------------------------
(* STEP G, the SQL statements of data.py:158-171 *)

\* the column list of LOAD DATA, data.py:169
LoadColumns == <<"float_id", "date", "latitude", "longitude", "depth",
                 "temperature", "salinity">>

\* the column types of CREATE TABLE, data.py:160-162
SqlType(c) ==
    CASE c = "float_id" -> "VARCHAR"
      [] c = "date" -> "DATETIME"
      [] OTHER -> "DOUBLE"

\* what LOAD DATA LOCAL stores for an empty field: the conversion error is a
\* warning, and the column gets the zero of its type
EmptyField(c) ==
    CASE SqlType(c) = "VARCHAR" -> <<"">>
      [] SqlType(c) = "DATETIME" -> <<"0000-00-00 00:00:00">>
      [] OTHER -> <<0>>

\* LOAD DATA LOCAL INFILE ... IGNORE 1 ROWS (columns): the header line is
\* skipped and field p of a line is stored in column p of the list, an empty
\* field as the zero of the column's type; a column the line has no field
\* for is left NULL, <<>>
LoadLine(line) ==
    [c \in {LoadColumns[p] : p \in 1..Len(LoadColumns)} |->
        LET p == CHOOSE q \in 1..Len(LoadColumns) : LoadColumns[q] = c
        IN  IF p > Len(line) THEN <<>>
            ELSE IF line[p] = <<>> THEN EmptyField(c)
            ELSE line[p]]

LoadDataInfile(file) == [k \in 1..Len(file.lines) |-> LoadLine(file.lines[k])]

TruncateKeeps(rows) == rows

\* TRUNCATE TABLE argo_profiles, data.py:166
Truncate(rows) == <<>>


-----------------------------------------------------------------------------
(* The inputs: the files of the server, the catalogs and the datasets *)

PairsOf(p, l) == (0..(p - 1)) \X (0..(l - 1))

Dataset(p, l, tq, sq) ==
    [openable |-> TRUE, present |-> AllVars, n_prof |-> p, n_levels |-> l,
     platform |-> 1, ids |-> 1, juld_numeric |-> TRUE,
     qc |-> [TEMP |-> tq, PSAL |-> sq]]

Uniform(p, l, flag) == [pr \in PairsOf(p, l) |-> flag]

\* a file xr.open_dataset cannot read: empty or cut short
Truncated ==
    [openable |-> FALSE, present |-> {}, n_prof |-> 0, n_levels |-> 0,
     platform |-> 0, ids |-> 0, juld_numeric |-> TRUE,
     qc |-> [TEMP |-> Uniform(0, 0, "4"), PSAL |-> Uniform(0, 0, "4")]]

Shapes == {sh \in (1..MaxPairs) \X (1..MaxPairs) : sh[1] * sh[2] <= MaxPairs}

\* PLATFORM_NUMBER of a dataset: one entry, or one entry a profile
IdCounts(p) == {1, p}

\* datasets that lack one variable, or whose JULD was decoded, with the same
\* flag at every pair
LackingDatasets ==
    {[Dataset(sh[1], sh[2], Uniform(sh[1], sh[2], a), Uniform(sh[1], sh[2], b))
         EXCEPT !.present = AllVars \ {v}] :
        sh \in Shapes, a \in Flags, b \in Flags, v \in AllVars}
    \cup
    {[Dataset(sh[1], sh[2], Uniform(sh[1], sh[2], a), Uniform(sh[1], sh[2], b))
         EXCEPT !.juld_numeric = FALSE] :
        sh \in Shapes, a \in Flags, b \in Flags}

\* the profile files of the server
BothGood == Dataset(1, 2, Uniform(1, 2, "1"), Uniform(1, 2, "2"))
SalinityFirst ==
    Dataset(1, 2, [pr \in PairsOf(1, 2) |-> IF pr[2] = 0 THEN "4" ELSE "1"],
            Uniform(1, 2, "1"))
SalinityOnly == Dataset(1, 1, Uniform(1, 1, "4"), Uniform(1, 1, "1"))
NothingGood == Dataset(1, 1, Uniform(1, 1, "4"), Uniform(1, 1, "4"))
\* two profiles, PLATFORM_NUMBER with an entry for each
TwoProfiles ==
    [Dataset(2, 1, Uniform(2, 1, "1"), Uniform(2, 1, "1")) EXCEPT !.ids = 2]

RemoteFile(file) ==
    CASE file[2] = "R1.nc" -> BothGood
      [] file[2] = "R2.nc" -> SalinityFirst
      [] file[2] = "R3.nc" -> SalinityOnly
      [] file[2] = "R4.nc" -> NothingGood
      [] OTHER -> TwoProfiles

Bases == {"R1.nc", "R2.nc", "R3.nc", "R4.nc", "R5.nc"}

Row(dir, base, lat, lon, date) ==
    [file |-> <<dir, base>>, latitude |-> lat, longitude |-> lon, date |-> date]

\* catalog rows of the runs that go on to download: one per file, inside the
\* box, and one outside of it
PipelineRows ==
    {Row("aoml", b, 0, 70, 2023031512) : b \in Bases}
        \cup {Row("coriolis", "R1.nc", 10, 70, 2023031512)}

\* catalog rows around every bound of the filter: a row in the middle of the
\* box and of the month, the rows that differ from it in one field, and the
\* two rows that lie on three bounds at once
Latitudes == {-6, -5, 5, 6}
Longitudes == {59, 60, 80, 81}
Dates == {2023022823, 2023030100, 2023030112, 2023033100, 2023033112,
          2023040100, 2022031512, 2024031512, 2023061512}
FilterRowSet ==
    {Row("aoml", "R1.nc", 0, 70, 2023031512)}
        \cup {Row("aoml", "R1.nc", la, 70, 2023031512) : la \in Latitudes}
        \cup {Row("aoml", "R1.nc", 0, lo, 2023031512) : lo \in Longitudes}
        \cup {Row("aoml", "R1.nc", 0, 70, d) : d \in Dates}
        \cup {Row("aoml", "R1.nc", -5, 60, 2023030100),
              Row("aoml", "R1.nc", 5, 80, 2023033100)}

SeqsUpTo(S, n) == UNION {[1..k -> S] : k \in 0..n}

\* catalogs that list no file twice
Catalogs(S, n) ==
    {c \in SeqsUpTo(S, n) : \A j, k \in 1..Len(c) : c[j] = c[k] => j = k}

NoDisk == [b \in Bases |-> <<>>]

\* os.path.basename(file_path) under download_folder, data.py:84-87
Dest(row) == row.file[2]

\* os.path.exists(dest), data.py:89
Exists(d, dest) == d[dest] # <<>>

-----------------------------------------------------------------------------
(* The state before a run *)

OldFile == ToCsv(Combined(<<ProcessNcFile(BothGood)>>))

Locals ==
    /\ df_index = <<>>
    /\ filtered = <<>>
    /\ dl_i = 1
    /\ downloaded_files = <<>>
    /\ connects = 0
    /\ df = EmptyFrame
    /\ f_i = 1
    /\ all_rows = <<>>
    /\ txn = <<>>
    /\ conn = "unbound"
    /\ cursor = "unbound"
    /\ err = FALSE

NoPrev == [ran |-> FALSE, files |-> <<>>, clean |-> FALSE, filtered |-> <<>>,
           loaded |-> FALSE]

History ==
    /\ run = 1
    /\ start = [disk |-> disk, csv |-> csv, table |-> table]
    /\ first_disk = disk
    /\ succeeded = {}
    /\ prev = NoPrev

\* a first run, or a run after an earlier one that loaded OldFile
Store ==
    \/ csv = <<>> /\ table = <<>>
    \/ csv = <<OldFile>> /\ table = LoadDataInfile(OldFile)

\* the download folder before a run: empty, or with a file an earlier run
\* downloaded, or with a file an earlier run left cut short
StartDisks ==
    {NoDisk,
     [NoDisk EXCEPT !["R1.nc"] = <<BothGood>>],
     [NoDisk EXCEPT !["R3.nc"] = <<Truncated>>]}

\* a whole run of the script
Init ==
    /\ pc = "fetch"
    /\ remote_index \in Catalogs(PipelineRows, MaxSel)
    /\ disk \in StartDisks
    /\ Store
    /\ Locals
    /\ History

\* runs of the index fetch and the filter
InitFilter ==
    /\ pc = "fetch"
    /\ remote_index \in SeqsUpTo(FilterRowSet, MaxRows)
    /\ disk = NoDisk
    /\ csv = <<>> /\ table = <<>>
    /\ Locals
    /\ History

\* runs of the flattener on one file of the download folder
InitFlatten ==
    /\ pc = "process"
    /\ remote_index = <<>>
    /\ \/ \E sh \in Shapes :
             \E tq \in [PairsOf(sh[1], sh[2]) -> Flags] :
               \E sq \in [PairsOf(sh[1], sh[2]) -> Flags] :
                 \E n \in IdCounts(sh[1]) :
                   disk = [NoDisk EXCEPT !["R1.nc"] =
                              <<[Dataset(sh[1], sh[2], tq, sq) EXCEPT !.ids = n]>>]
       \/ \E ds \in LackingDatasets \cup {Truncated} :
             disk = [NoDisk EXCEPT !["R1.nc"] = <<ds>>]
    /\ csv = <<>> /\ table = <<>>
    /\ df_index = <<>>
    /\ filtered = <<>>
    /\ dl_i = 1
    /\ downloaded_files = <<"R1.nc">>
    /\ connects = 0
    /\ df = EmptyFrame
    /\ f_i = 1
    /\ all_rows = <<>>
    /\ txn = <<>>
    /\ conn = "unbound"
    /\ cursor = "unbound"
    /\ err = FALSE
    /\ History

\* three files of the server are in the download folder
FullDisk ==
    [b \in Bases |-> IF b \in {"R1.nc", "R2.nc", "R4.nc"}
                     THEN <<RemoteFile(<<"aoml", b>>)>> ELSE <<>>]

\* runs of steps F and G on files of the download folder
InitLoad ==
    /\ pc = "process"
    /\ remote_index = <<>>
    /\ disk = FullDisk
    /\ Store
    /\ df_index = <<>>
    /\ filtered = <<>>
    /\ dl_i = 1
    /\ downloaded_files \in SeqsUpTo({b \in Bases : Exists(FullDisk, b)}, MaxSel)
    /\ connects = 0
    /\ df = EmptyFrame
    /\ f_i = 1
    /\ all_rows = <<>>
    /\ txn = <<>>
    /\ conn = "unbound"
    /\ cursor = "unbound"
    /\ err = FALSE
    /\ History

-----------------------------------------------------------------------------
(* STEP D: FETCH AND PARSE THE GLOBAL INDEX, data.py:50-76 *)

\* lines 57-64 succeed; line 69 converts the date column
FetchIndex ==
    /\ pc = "fetch"
    /\ df_index' = [k \in 1..Len(remote_index) |->
                       [remote_index[k] EXCEPT !.date = ToDatetime(@)]]
    /\ pc' = "filter"
    /\ UNCHANGED <<run, remote_index, filtered, disk, dl_i, downloaded_files,
                   connects, df, f_i, all_rows, csv, table, txn, conn, cursor,
                   err, start, first_disk, succeeded, prev>>

\* lines 65-67: the fetch or the parse raises, exit()
FetchIndexFails ==
    /\ pc = "fetch"
    /\ pc' = "exit_index"
    /\ UNCHANGED <<run, remote_index, df_index, filtered, disk, dl_i,
                   downloaded_files, connects, df, f_i, all_rows, csv, table,
                   txn, conn, cursor, err, start, first_disk, succeeded, prev>>

\* lines 70-76
FilterIndex ==
    /\ pc = "filter"
    /\ filtered' = FilterRows(df_index)
    /\ pc' = "download"
    /\ UNCHANGED <<run, remote_index, df_index, disk, dl_i, downloaded_files,
                   connects, df, f_i, all_rows, csv, table, txn, conn, cursor,
                   err, start, first_disk, succeeded, prev>>


-----------------------------------------------------------------------------
(* STEP E: DOWNLOAD DATA FILES, data.py:81-96, with download_file_ftp,      *)
(* data.py:28-45.  One action is one turn of the loop.                      *)

\* how a call of download_file_ftp ends: with no exception ("ok"), or with
\* the exception of FTP(ftp_server) when the connection cannot be made
\* ("connect"), of login, of cwd, of retrbinary while bytes are still to
\* come ("retr"), or of the end of the with block of line 37, whose QUIT the
\* server refuses after the whole file was written ("quit"; the same when
\* retrbinary raises on the reply that follows the last byte)
Outcomes == {"ok", "connect", "login", "cwd", "retr", "quit"}

\* FTP(ftp_server) at line 37 opened the connection
Connected(outcome) == outcome # "connect"

\* open(dest, "wb") at line 40 runs once login and cwd have succeeded, and
\* creates the file before the transfer starts
Written(outcome) == outcome \in {"ok", "retr", "quit"}

\* the file the call leaves at dest, when it leaves one
LeftBehind(file, outcome) ==
    IF outcome \in {"ok", "quit"} THEN <<RemoteFile(file)>> ELSE <<Truncated>>

\* lines 89-93: the destination is absent and download_file_ftp is called
DownloadMissing ==
    /\ pc = "download"
    /\ dl_i <= Len(filtered)
    /\ ~Exists(disk, Dest(filtered[dl_i]))
    /\ \E outcome \in Outcomes :
         LET row == filtered[dl_i]
         IN  /\ connects' = IF Connected(outcome) THEN connects + 1 ELSE connects
             /\ disk' = IF Written(outcome)
                        THEN [disk EXCEPT ![Dest(row)] = LeftBehind(row.file, outcome)]
                        ELSE disk
             /\ downloaded_files' = IF outcome = "ok"
                                    THEN Append(downloaded_files, Dest(row))
                                    ELSE downloaded_files
             /\ succeeded' = IF outcome = "ok"
                             THEN succeeded \cup {Dest(row)}
                             ELSE succeeded
    /\ dl_i' = dl_i + 1
    /\ UNCHANGED <<pc, run, remote_index, df_index, filtered, df, f_i,
                   all_rows, csv, table, txn, conn, cursor, err, start,
                   first_disk, prev>>

SkipExistingDrops(files, dest) == files

\* lines 94-96: the destination exists
SkipExisting(files, dest) == Append(files, dest)

DownloadExisting ==
    /\ pc = "download"
    /\ dl_i <= Len(filtered)
    /\ Exists(disk, Dest(filtered[dl_i]))
    /\ downloaded_files' = SkipExisting(downloaded_files, Dest(filtered[dl_i]))
    /\ dl_i' = dl_i + 1
    /\ UNCHANGED <<pc, run, remote_index, df_index, filtered, disk, connects,
                   df, f_i, all_rows, csv, table, txn, conn, cursor, err,
                   start, first_disk, succeeded, prev>>

\* the loop at line 82 is over
DownloadsDone ==
    /\ pc = "download"
    /\ dl_i > Len(filtered)
    /\ pc' = "process"
    /\ UNCHANGED <<run, remote_index, df_index, filtered, disk, dl_i,
                   downloaded_files, connects, df, f_i, all_rows, csv, table,
                   txn, conn, cursor, err, start, first_disk, succeeded, prev>>

-----------------------------------------------------------------------------
(* STEP F: PROCESS DOWNLOADED FILES, data.py:131-147 *)

\* what xr.open_dataset finds at a path of downloaded_files
FileAt(d, dest) == d[dest][1]

\* lines 132-136, one turn of the loop: the exception process_nc_file does
\* not catch ends the script
ProcessFile ==
    /\ pc = "process"
    /\ f_i <= Len(downloaded_files)
    /\ LET ds == FileAt(disk, downloaded_files[f_i])
       IN  IF Raises(ds)
           THEN /\ pc' = "raised_process"
                /\ UNCHANGED <<df, f_i, all_rows>>
           ELSE /\ df' = ProcessNcFile(ds)
                /\ all_rows' = IF IsEmpty(ProcessNcFile(ds)) THEN all_rows
                               ELSE Append(all_rows, ProcessNcFile(ds))
                /\ f_i' = f_i + 1
                /\ pc' = pc
    /\ UNCHANGED <<run, remote_index, df_index, filtered, disk, dl_i,
                   downloaded_files, connects, csv, table, txn, conn, cursor,
                   err, start, first_disk, succeeded, prev>>

\* lines 138-140: nothing was processed, exit()
NoData ==
    /\ pc = "process"
    /\ f_i > Len(downloaded_files)
    /\ all_rows = <<>>
    /\ pc' = "exit_nodata"
    /\ UNCHANGED <<run, remote_index, df_index, filtered, disk, dl_i,
                   downloaded_files, connects, df, f_i, all_rows, csv, table,
                   txn, conn, cursor, err, start, first_disk, succeeded, prev>>

\* lines 142-147
Combine ==
    /\ pc = "process"
    /\ f_i > Len(downloaded_files)
    /\ all_rows # <<>>
    /\ csv' = <<ToCsv(Combined(all_rows))>>
    /\ pc' = "connect"
    /\ UNCHANGED <<run, remote_index, df_index, filtered, disk, dl_i,
                   downloaded_files, connects, df, f_i, all_rows, table, txn,
                   conn, cursor, err, start, first_disk, succeeded, prev>>

-----------------------------------------------------------------------------
(* STEP G: LOAD INTO MYSQL, data.py:152-179.  A statement succeeds, or      *)
(* raises mysql.connector.Error with the connection still up ("error") or   *)
(* gone ("lost"); the except clause at line 173 prints and the finally      *)
(* clause follows.                                                          *)

Results == {"ok", "error", "lost"}

\* the jump to the except clause
Caught(result) ==
    /\ err' = TRUE
    /\ pc' = "finally"
    /\ conn' = IF result = "lost" THEN "lost" ELSE conn

\* lines 153-156
Connect ==
    /\ pc = "connect"
    /\ \/ conn' = "connected" /\ pc' = "cursor" /\ err' = err
       \/ conn' = conn /\ pc' = "finally" /\ err' = TRUE
    /\ UNCHANGED <<run, remote_index, df_index, filtered, disk, dl_i,
                   downloaded_files, connects, df, f_i, all_rows, csv, table,
                   txn, cursor, start, first_disk, succeeded, prev>>

\* line 157
CreateCursor ==
    /\ pc = "cursor"
    /\ \E result \in Results :
         IF result = "ok"
         THEN cursor' = "open" /\ pc' = "create" /\ UNCHANGED <<conn, err>>
         ELSE cursor' = cursor /\ Caught(result)
    /\ UNCHANGED <<run, remote_index, df_index, filtered, disk, dl_i,
                   downloaded_files, connects, df, f_i, all_rows, csv, table,
                   txn, start, first_disk, succeeded, prev>>

\* lines 158-165: the table exists already or is created empty
CreateTable ==
    /\ pc = "create"
    /\ \E result \in Results :
         IF result = "ok"
         THEN pc' = "truncate" /\ UNCHANGED <<conn, err>>
         ELSE Caught(result)
    /\ UNCHANGED <<run, remote_index, df_index, filtered, disk, dl_i,
                   downloaded_files, connects, df, f_i, all_rows, csv, table,
                   txn, cursor, start, first_disk, succeeded, prev>>

\* lines 166-167: TRUNCATE commits by itself
TruncateTable ==
    /\ pc = "truncate"
    /\ \E result \in Results :
         IF result = "ok"
         THEN table' = Truncate(table) /\ pc' = "load" /\ UNCHANGED <<conn, err>>
         ELSE table' = table /\ Caught(result)
    /\ UNCHANGED <<run, remote_index, df_index, filtered, disk, dl_i,
                   downloaded_files, connects, df, f_i, all_rows, csv, txn,
                   cursor, start, first_disk, succeeded, prev>>

\* lines 168-170
LoadData ==
    /\ pc = "load"
    /\ \E result \in Results :
         IF result = "ok"
         THEN txn' = LoadDataInfile(csv[1]) /\ pc' = "commit" /\ UNCHANGED <<conn, err>>
         ELSE txn' = txn /\ Caught(result)
    /\ UNCHANGED <<run, remote_index, df_index, filtered, disk, dl_i,
                   downloaded_files, connects, df, f_i, all_rows, csv, table,
                   cursor, start, first_disk, succeeded, prev>>

\* lines 171-172
Commit ==
    /\ pc = "commit"
    /\ \E result \in Results :
         IF result = "ok"
         THEN /\ table' = table \o txn
              /\ txn' = <<>>
              /\ pc' = "finally"
              /\ UNCHANGED <<conn, err>>
         ELSE UNCHANGED <<table, txn>> /\ Caught(result)
    /\ UNCHANGED <<run, remote_index, df_index, filtered, disk, dl_i,
                   downloaded_files, connects, df, f_i, all_rows, csv, cursor,
                   start, first_disk, succeeded, prev>>

\* lines 175-179: cursor.close() raises NameError when line 157 never bound
\* the name, and conn.close() is then not reached; what was not committed is
\* rolled back when the session ends
Finally ==
    /\ pc = "finally"
    /\ IF conn = "connected"
       THEN IF cursor = "unbound"
            THEN pc' = "raised_finally" /\ UNCHANGED <<conn, cursor>>
            ELSE pc' = "done" /\ cursor' = "closed" /\ conn' = "closed"
       ELSE pc' = "done" /\ UNCHANGED <<conn, cursor>>
    /\ txn' = <<>>
    /\ UNCHANGED <<run, remote_index, df_index, filtered, disk, dl_i,
                   downloaded_files, connects, df, f_i, all_rows, csv, table,
                   err, start, first_disk, succeeded, prev>>

-----------------------------------------------------------------------------
(* Running the script again *)

FreshLocals ==
    /\ df_index' = <<>>
    /\ filtered' = <<>>
    /\ dl_i' = 1
    /\ downloaded_files' = <<>>
    /\ connects' = 0
    /\ df' = EmptyFrame
    /\ f_i' = 1
    /\ all_rows' = <<>>
    /\ txn' = <<>>
    /\ conn' = "unbound"
    /\ cursor' = "unbound"
    /\ err' = FALSE

Ended == {"exit_index", "exit_nodata", "raised_process", "raised_finally", "done"}

\* what a run leaves for the history of the next one
Leaves ==
    [ran |-> TRUE, files |-> downloaded_files,
     clean |-> pc = "process" /\ Len(downloaded_files) = Len(filtered),
     filtered |-> filtered,
     loaded |-> pc = "done" /\ ~err]

\* the retriever has finished, or the index fetch has failed; the rest of the
\* run leaves the download folder alone, and the script is started again with
\* the same index on the server
RetrieveAgain ==
    /\ pc \in {"process", "exit_index"}
    /\ run < MaxRuns
    /\ run' = run + 1
    /\ pc' = "fetch"
    /\ FreshLocals
    /\ start' = [disk |-> disk, csv |-> csv, table |-> table]
    /\ prev' = Leaves
    /\ UNCHANGED <<remote_index, disk, csv, table, first_disk, succeeded>>

\* the script has ended and is started again; its steps D and E hand any list
\* of files of the download folder to step F
LoadAgain ==
    /\ pc \in Ended
    /\ run < MaxRuns
    /\ run' = run + 1
    /\ pc' = "process"
    /\ df_index' = <<>>
    /\ filtered' = <<>>
    /\ dl_i' = 1
    /\ downloaded_files' \in SeqsUpTo({b \in Bases : Exists(disk, b)}, MaxSel)
    /\ connects' = 0
    /\ df' = EmptyFrame
    /\ f_i' = 1
    /\ all_rows' = <<>>
    /\ txn' = <<>>
    /\ conn' = "unbound"
    /\ cursor' = "unbound"
    /\ err' = FALSE
    /\ start' = [disk |-> disk, csv |-> csv, table |-> table]
    /\ prev' = [NoPrev EXCEPT !.ran = TRUE, !.loaded = Leaves.loaded]
    /\ UNCHANGED <<remote_index, disk, csv, table, first_disk, succeeded>>

Next ==
    \/ FetchIndex
    \/ FetchIndexFails
    \/ FilterIndex
    \/ DownloadMissing
    \/ DownloadExisting
    \/ DownloadsDone
    \/ ProcessFile
    \/ NoData
    \/ Combine
    \/ Connect
    \/ CreateCursor
    \/ CreateTable
    \/ TruncateTable
    \/ LoadData
    \/ Commit
    \/ Finally

Spec == Init /\ [][Next]_vars

NextFilter == FetchIndex \/ FetchIndexFails \/ FilterIndex

SpecFilter == InitFilter /\ [][NextFilter]_vars

NextFlatten == ProcessFile

SpecFlatten == InitFlatten /\ [][NextFlatten]_vars

NextRetrieve ==
    \/ FetchIndex
    \/ FetchIndexFails
    \/ FilterIndex
    \/ DownloadMissing
    \/ DownloadExisting
    \/ DownloadsDone
    \/ RetrieveAgain

SpecRetrieve == Init /\ [][NextRetrieve]_vars

NextLoad ==
    \/ ProcessFile
    \/ NoData
    \/ Combine
    \/ Connect
    \/ CreateCursor
    \/ CreateTable
    \/ TruncateTable
    \/ LoadData
    \/ Commit
    \/ Finally
    \/ LoadAgain

SpecLoad == InitLoad /\ [][NextLoad]_vars

-----------------------------------------------------------------------------
(* The claims *)

\* what the claims say of a flag: the quality-control array holds "1" or "2"
FlagGood(ds, var, pr) ==
    QcName(var) \in ds.present /\ ds.qc[var][pr] \in {"1", "2"}

\* the rows of a frame that come from pair <<i, j>> of ds: latitude tells the
\* profile and depth the level
RowsOfPair(ds, frame, pr) ==
    {k \in 1..Len(frame.rows) :
        /\ ColumnCell(frame, k, "latitude") = <<Latitude(ds, pr[1])>>
        /\ ColumnCell(frame, k, "depth") = <<Pres(ds, pr[1], pr[2])>>}

\* one record for a pair exactly when a requested variable has a good flag
\* there, carrying exactly the variables whose flag is good
PairsAsClaimed(ds, frame) ==
    \A pr \in PairsOf(ds.n_prof, ds.n_levels) :
        /\ Cardinality(RowsOfPair(ds, frame, pr)) =
              IF FlagGood(ds, "TEMP", pr) \/ FlagGood(ds, "PSAL", pr) THEN 1 ELSE 0
        /\ \A k \in RowsOfPair(ds, frame, pr) :
              /\ ColumnCell(frame, k, "temp") # <<>> <=> FlagGood(ds, "TEMP", pr)
              /\ ColumnCell(frame, k, "psal") # <<>> <=> FlagGood(ds, "PSAL", pr)

InBox(r) ==
    /\ -5 <= r.latitude /\ r.latitude <= 5
    /\ 60 <= r.longitude /\ r.longitude <= 80

Occurrences(rows, r) == Cardinality({k \in 1..Len(rows) : rows[k] = r})

\* C1: once the filter has run, a catalog row is among the selected rows if
\* and only if its latitude, longitude and date lie within the six bounds,
\* the bounds included; every selected row is a catalog row as the catalog
\* holds it, and a catalog without a matching row gives an empty selection.
C1_FilterSelects ==
    pc = "download" =>
        /\ \A k \in 1..Len(df_index) :
              LET r == df_index[k]
              IN  (\E m \in 1..Len(filtered) : filtered[m] = r)
                     <=> /\ InBox(r)
                         /\ ParseDateString(<<2023, 3, 1>>) <= r.date
                         /\ r.date <= ParseDateString(<<2023, 3, 31>>)
        /\ \A m \in 1..Len(filtered) :
              /\ \E k \in 1..Len(df_index) : df_index[k] = filtered[m]
              /\ Occurrences(filtered, filtered[m]) = Occurrences(df_index, filtered[m])

\* a row on the upper latitude bound and a row on the end date are selected
\* while a row outside is not
C1_Witness ==
    /\ pc = "download"
    /\ Len(df_index) = 2
    /\ Len(filtered) = 1
    /\ \/ filtered[1].latitude = 5
       \/ filtered[1].date = ParseDateString(<<2023, 3, 31>>)

\* the day a timestamp falls on, in days since 2023-01-01
DayOf(ts) == ts \div 24

\* C10: every catalog row inside the box whose timestamp falls on the
\* calendar day of end_date, at any time of day, is selected.
C10_EndDayIncluded ==
    pc = "download" =>
        \A k \in 1..Len(df_index) :
            (InBox(df_index[k]) /\ DayOf(df_index[k].date) = DayOf(ParseDateString(<<2023, 3, 31>>)))
                => \E m \in 1..Len(filtered) : filtered[m] = df_index[k]

\* process_nc_file has been called on the file of the flattener runs
Called == f_i > 1 \/ pc = "raised_process"

\* C2: for every pair of a file that opens, a record is produced if and
\* only if a requested variable has flag "1" or "2" there, it carries exactly
\* the variables with such a flag, and no pair has two records.
C2_EveryOpenedFile ==
    (Called /\ FileAt(disk, "R1.nc").openable)
        => PairsAsClaimed(FileAt(disk, "R1.nc"), df)

\* the variables process_nc_file reads without asking whether they exist
ReadVars == HeaderVars \cup {"TEMP", "PSAL"}

\* the retriever is at a selected entry whose destination exists
AtExisting ==
    /\ pc = "download"
    /\ dl_i <= Len(filtered)
    /\ disk[filtered[dl_i].file[2]] # <<>>

\* C3: at a selected entry whose destination exists the retriever opens no
\* connection, writes nothing and appends the destination to the file list;
\* and a run after a run in which every entry was retrieved, over the same
\* selection, opens no connection and gives the same file list.
C3_Idempotent ==
    /\ [][AtExisting =>
            /\ connects' = connects
            /\ disk' = disk
            /\ downloaded_files' = Append(downloaded_files, filtered[dl_i].file[2])]_vars
    /\ []((pc = "process" /\ prev.ran /\ prev.clean /\ prev.filtered = filtered)
            => (connects = 0 /\ downloaded_files = prev.files))

\* a second run found the files a first run had downloaded
C3_Witness ==
    /\ pc = "process"
    /\ run = 2
    /\ prev.clean
    /\ prev.filtered = filtered
    /\ Len(filtered) = 2
    /\ succeeded # {}
    /\ connects = 0
    /\ Len(downloaded_files) = 2

PresentAtFirst == {b \in Bases : first_disk[b] # <<>>}

\* C9: in every run a destination is in the file list only if the file was
\* there before the first run or some download of it completed; a download
\* that failed has left nothing a later turn or run takes for the file.
C9_OnlyRetrieved ==
    \A k \in 1..Len(downloaded_files) :
        downloaded_files[k] \in PresentAtFirst \cup succeeded

\* C4: after a run whose load was committed the table holds exactly the
\* rows of that run's intermediate file.
C4_TruncateThenLoad ==
    (pc = "done" /\ ~err) =>
        /\ Len(table) = Len(csv[1].lines)
        /\ \A k \in 1..Len(table) : table[k] = LoadLine(csv[1].lines[k])

\* two runs in succession loaded the same rows, and the table holds them once
C4_Witness ==
    /\ pc = "done" /\ ~err
    /\ run = 2
    /\ prev.loaded
    /\ table # <<>>
    /\ table = start.table

\* a file that fails to open or to parse: a variable the flattener reads is
\* missing, the float identifier is not one value, or the time is not a
\* number of days
Fails(ds) ==
    \/ ~ds.openable
    \/ ~(ReadVars \subseteq ds.present)
    \/ ds.ids # 1
    \/ ~ds.juld_numeric

\* a file with a good flag somewhere
HasGood(ds) ==
    /\ ds.openable
    /\ \E pr \in PairsOf(ds.n_prof, ds.n_levels) :
          FlagGood(ds, "TEMP", pr) \/ FlagGood(ds, "PSAL", pr)

PastStageF ==
    pc \notin {"fetch", "filter", "download", "process", "exit_index"}

InLoader ==
    pc \in {"connect", "cursor", "create", "truncate", "load", "commit",
            "finally", "done", "raised_finally"}

\* C5: when a file of the list fails to open or parse, every file of the
\* list is still processed, and the run reaches the loader if another file
\* yielded records.
C5_ParseFailureRecoverable ==
    (PastStageF /\ \E k \in 1..Len(downloaded_files) :
                      Fails(FileAt(disk, downloaded_files[k])))
        => /\ f_i = Len(downloaded_files) + 1
           /\ (\E k \in 1..Len(downloaded_files) :
                  /\ ~Fails(FileAt(disk, downloaded_files[k]))
                  /\ HasGood(FileAt(disk, downloaded_files[k])))
                 => InLoader

\* C6: a run that opened the connection ends with no exception propagated
\* and with neither the connection nor the cursor open.
C6_LoaderReleases ==
    (pc \in {"done", "raised_finally"} /\ conn # "unbound")
        => /\ pc = "done"
           /\ conn # "connected"
           /\ cursor # "open"

\* C7: the intermediate file of a run that reaches the loader has the
\* columns float_id, date, latitude, longitude, depth, temperature, salinity
\* in that order, and a committed load stores the temperature and the
\* salinity a record carries in the columns of those names.
C7_ColumnLayout ==
    /\ InLoader =>
          csv[1].header = <<"float_id", "date", "latitude", "longitude", "depth",
                            "temperature", "salinity">>
    /\ (pc = "done" /\ ~err) =>
          \A k \in 1..Len(table) :
              \A c \in {"temperature", "salinity"} :
                  ColumnCell(Combined(all_rows), k, c) # <<>>
                      => table[k][c] = ColumnCell(Combined(all_rows), k, c)

\* a file that yields no record: it has no good flag, or reading it raises
YieldsNothing(ds) == ~HasGood(ds) \/ Raises(ds)

\* C8: a run in which no file of the list yields a record (the list is empty
\* or every file yields nothing) ends before the loader with the
\* intermediate file and the table as it found them, and a run whose index
\* fetch fails ends with no file downloaded.
C8_FatalLeavesStore ==
    /\ (PastStageF /\ \A k \in 1..Len(downloaded_files) :
                         YieldsNothing(FileAt(disk, downloaded_files[k])))
          => /\ pc \in {"exit_nodata", "raised_process"}
             /\ csv = start.csv
             /\ table = start.table
             /\ conn = "unbound"
    /\ pc = "exit_index"
          => /\ connects = 0
             /\ disk = start.disk
             /\ downloaded_files = <<>>

\* a run over files without a good flag ended with the old table in place
C8_Witness ==
    /\ pc = "exit_nodata"
    /\ Len(downloaded_files) = 2
    /\ table # <<>>
    /\ table = start.table
    /\ csv = start.csv

====
